---- MODULE Spec2Model ----
(***************************************************************************)
(* Model of the indicator acquisition and caching core of src/app.py:      *)
(* the registry `indicadores`, the module-level date window, the           *)
(* unsynchronised dict `cache`, the decorator `with_cache`, the function   *)
(* `baixar_dados` and the adapter `fetch_yfinance_data`.                    *)
(*                                                                         *)
(* The Flask/Dash server runs callbacks on several request threads, so a   *)
(* call of baixar_dados is modelled per thread, split where other threads  *)
(* can observe or change shared state: the freshness test (line 77), the   *)
(* read of the cached data (line 78), the blocking upstream call (lines    *)
(* 49-57 and 101) and the cache write (lines 82-85).                       *)
(*                                                                         *)
(* A DataFrame is a sequence of rows [date, val]; NaN is a missing value.  *)
(* Time is in whole seconds, a date is a day number.                       *)
(* Provider codes are written as strings.                                  *)
(***************************************************************************)
EXTENDS Integers, Sequences, FiniteSets, TLC

VARIABLES cache, now, ticks, end_date, pc, arg, req, ret, io

vars == <<cache, now, ticks, end_date, pc, arg, req, ret, io>>

-----------------------------------------------------------------------------
(* Bounds                                                                  *)

NumThreads == 2
MaxTicks == 2

Threads == 1..NumThreads

-----------------------------------------------------------------------------
(* Program constants                                                       *)

CACHE_TIMEOUT == 3600
SecondsPerDay == 86400

\* timeout=30 of yf.download (line 56); sgs.get is called without one (line 101).
YFTimeout == 30
NoTimeout == 0

start_date == "1994-07-01"

indicadores ==
  [n \in {"Ibovespa", "PIB Total", "Taxa Selic", "IPCA Mensal",
          "Cambio USD/BRL", "Taxa de Desemprego"} |->
     CASE n = "Ibovespa"           -> [codigo |-> "^BVSP", fonte |-> "YF",  unidade |-> "Pontos"]
       [] n = "PIB Total"          -> [codigo |-> "4380",  fonte |-> "BCB", unidade |-> "R$ milhoes"]
       [] n = "Taxa Selic"         -> [codigo |-> "4189",  fonte |-> "BCB", unidade |-> "% ao ano"]
       [] n = "IPCA Mensal"        -> [codigo |-> "433",   fonte |-> "BCB", unidade |-> "%"]
       [] n = "Cambio USD/BRL"     -> [codigo |-> "3696",  fonte |-> "BCB", unidade |-> "R$"]
       [] n = "Taxa de Desemprego" -> [codigo |-> "24369", fonte |-> "BCB", unidade |-> "%"]]

\* Names the callers pass: one per source kind and one that is not registered.
RequestedNames == {"Ibovespa", "Taxa Selic", "Bitcoin"}

\* Clock advances between steps: one second, or one second short of the TTL.
TickSteps == {1, CACHE_TIMEOUT - 1}

\* The process starts one TTL before midnight, so that the expiry of the first
\* entries and the change of the calendar date both fall within MaxTicks.
StartTime == SecondsPerDay - CACHE_TIMEOUT

-----------------------------------------------------------------------------
(* Data frames                                                             *)

NaN == "NaN"

Row(d, v) == [date |-> d, val |-> v]

\* Raw frames an upstream provider answers with: no rows at all, or three
\* rows that are not in date order, one of them without a value.
RawFrames ==
  { <<>>,
    <<Row(2, "7.0"), Row(3, NaN), Row(1, "7.0")>> }

EmptyDataFrame == <<>>

\* DataFrame.dropna(): keeps, in their order, the rows without a missing value.
RECURSIVE dropna(_)
dropna(df) ==
  IF df = <<>> THEN <<>>
  ELSE IF Head(df).val = NaN THEN dropna(Tail(df))
       ELSE <<Head(df)>> \o dropna(Tail(df))

\* What yf.download can do: answer rows, with or without a Close column, or
\* raise (transport error, timeout).
YFResponses ==
  [kind : {"rows"}, rows : RawFrames, close : BOOLEAN]
    \cup {[kind |-> "error", rows |-> <<>>, close |-> FALSE]}

\* What sgs.get can do: answer the observations of the series, or raise.
BCBResponses ==
  [kind : {"rows"}, rows : RawFrames, close : {FALSE}]
    \cup {[kind |-> "error", rows |-> <<>>, close |-> FALSE]}

\* Result of evaluating a Python call: a value or a raised exception.
Value(df) == [exc |-> "", df |-> df]
Raise(e) == [exc |-> e, df |-> <<>>]

-----------------------------------------------------------------------------
(* Module-level date window (lines 29-30)                                  *)

DateOf(t) == t \div SecondsPerDay

\* (datetime.now() + timedelta(days=1)).strftime('%Y-%m-%d') at time t
Tomorrow(t) == DateOf(t) + 1

-----------------------------------------------------------------------------
(* fetch_yfinance_data (lines 47-71)                                       *)

fetch_yfinance_data(resp) ==
  IF resp.kind = "error" THEN Value(EmptyDataFrame)          \* lines 69-71
  ELSE IF resp.rows = <<>> THEN Value(EmptyDataFrame)        \* lines 59-61
  ELSE IF ~resp.close THEN Value(EmptyDataFrame)             \* lines 63-65
  ELSE Value(resp.rows)                                      \* line 67

\* sgs.get (line 101): the library call, which raises on a failed request.
sgs_get(resp) ==
  IF resp.kind = "error" THEN Raise("Exception") ELSE Value(resp.rows)

-----------------------------------------------------------------------------
(* baixar_dados, the decorated function body (lines 94-102)                *)

\* Variant with the test of line 97 inverted: each name goes to the other
\* adapter.
Request_inverted(n) ==
  [fonte  |-> IF indicadores[n].fonte = "YF" THEN "BCB" ELSE "YF",
   codigo |-> indicadores[n].codigo,
   start  |-> start_date,
   end    |-> end_date,
   timeout |-> IF indicadores[n].fonte = "YF" THEN NoTimeout ELSE YFTimeout]

\* The upstream request the body issues for a registered name.
Request(n) ==
  [fonte  |-> indicadores[n].fonte,
   codigo |-> indicadores[n].codigo,
   start  |-> start_date,
   end    |-> end_date,
   timeout |-> IF indicadores[n].fonte = "YF" THEN YFTimeout ELSE NoTimeout]

NoReq == [fonte |-> "", codigo |-> "", start |-> "", end |-> 0, timeout |-> 0]

\* Result of the body, given the answer of the upstream call it makes.
baixar_dados(n, resp) ==
  IF n \notin DOMAIN indicadores THEN Raise("KeyError")      \* line 95
  ELSE IF indicadores[n].fonte = "YF"
       THEN LET r == fetch_yfinance_data(resp)                \* lines 98-99
            IN IF r.exc # "" THEN r ELSE Value(dropna(r.df))
       ELSE LET r == sgs_get(resp)                            \* lines 101-102
            IN IF r.exc # "" THEN r ELSE Value(dropna(r.df))

-----------------------------------------------------------------------------
(* with_cache.wrapper (lines 76-89)                                        *)

\* Variant in which one coarse lock is held over the whole call: a caller has
\* to wait for every other thread that is in its upstream call.
Blockers_global_lock(t, n) == {u \in Threads \ {t} : pc[u] = "upstream"}

\* The threads a caller of name n has to wait for before it enters: lines
\* 76-81 take no lock and wait for nothing, so there are none.
Blockers(t, n) == {}

\* Variant of line 77 that compares with <= instead of <.
IsFresh_inclusive(c, n, t) ==
  n \in DOMAIN c /\ t - c[n].timestamp <= CACHE_TIMEOUT

\* line 77
IsFresh(c, n, t) ==
  n \in DOMAIN c /\ t - c[n].timestamp < CACHE_TIMEOUT

\* Variant of line 78 that answers a hit with a new empty DataFrame.
CachedData_blank(c, n) == EmptyDataFrame

\* line 78
CachedData(c, n) == c[n].data

\* cache[indicador_nome] = {...}: dict item assignment
Put(c, n, e) == [k \in DOMAIN c \cup {n} |-> IF k = n THEN e ELSE c[k]]

\* Variant of line 78 that renews the timestamp of the entry it serves.
CacheAfterHit_touch(c, n, t) ==
  Put(c, n, [data |-> c[n].data, timestamp |-> t])

\* The cache after a hit: lines 77-78 only read it.
CacheAfterHit(c, n, t) == c

\* Variant of lines 82-85 that stores a result only when it has rows.
wrapper_cache_skip_empty(c, n, r, t) ==
  IF r.exc = "" /\ r.df # EmptyDataFrame
  THEN Put(c, n, [data |-> r.df, timestamp |-> t]) ELSE c

\* Variant of lines 80-89 that stores an entry in the handler as well.
wrapper_cache_always(c, n, r, t) ==
  Put(c, n, [data |-> r.df, timestamp |-> t])

\* The cache after the try block: written on a result (lines 82-85),
\* untouched when the body raised (lines 87-89).
wrapper_cache(c, n, r, t) ==
  IF r.exc = "" THEN Put(c, n, [data |-> r.df, timestamp |-> t]) ELSE c

NoReturn == [kind |-> "none", data |-> <<>>]
Return(df) == [kind |-> "series", data |-> df]
Propagate(e) == [kind |-> "raise", data |-> <<>>]

\* Variant of lines 87-89 that lets the exception of the body through.
wrapper_return_reraise(r) ==
  IF r.exc = "" THEN Return(r.df) ELSE Propagate(r.exc)

\* What the wrapper hands to its caller: the result (line 86) or, for any
\* Exception of the body, an empty DataFrame (line 89).
wrapper_return(r) ==
  IF r.exc = "" THEN Return(r.df) ELSE Return(EmptyDataFrame)

-----------------------------------------------------------------------------
(* State                                                                   *)

Init ==
  /\ cache = <<>>
  /\ now = StartTime
  /\ ticks = 0
  /\ end_date = Tomorrow(StartTime)
  /\ pc = [t \in Threads |-> "idle"]
  /\ arg = [t \in Threads |-> ""]
  /\ req = [t \in Threads |-> NoReq]
  /\ ret = [t \in Threads |-> NoReturn]
  /\ io = [t \in Threads |-> 0]

\* A request thread enters wrapper and finds a fresh entry (line 77 true).
CallHit(t, n) ==
  /\ pc[t] = "idle"
  /\ Blockers(t, n) = {}
  /\ IsFresh(cache, n, now)
  /\ pc' = [pc EXCEPT ![t] = "hit"]
  /\ arg' = [arg EXCEPT ![t] = n]
  /\ ret' = [ret EXCEPT ![t] = NoReturn]
  /\ io' = [io EXCEPT ![t] = 0]
  /\ UNCHANGED <<cache, now, ticks, end_date, req>>

\* line 78: return cache[indicador_nome]['data']
ReturnCached(t) ==
  /\ pc[t] = "hit"
  /\ ret' = [ret EXCEPT ![t] = Return(CachedData(cache, arg[t]))]
  /\ cache' = CacheAfterHit(cache, arg[t], now)
  /\ pc' = [pc EXCEPT ![t] = "idle"]
  /\ UNCHANGED <<now, ticks, end_date, arg, req, io>>

\* Line 77 false and the name is not registered: the body raises KeyError at
\* line 95, before any adapter call, and the wrapper handles it (lines 87-89).
CallKeyError(t, n) ==
  /\ pc[t] = "idle"
  /\ Blockers(t, n) = {}
  /\ ~IsFresh(cache, n, now)
  /\ n \notin DOMAIN indicadores
  /\ LET r == baixar_dados(n, [kind |-> "error", rows |-> <<>>, close |-> FALSE])
     IN /\ cache' = wrapper_cache(cache, n, r, now)
        /\ ret' = [ret EXCEPT ![t] = wrapper_return(r)]
  /\ arg' = [arg EXCEPT ![t] = n]
  /\ io' = [io EXCEPT ![t] = 0]
  /\ UNCHANGED <<now, ticks, end_date, pc, req>>

\* Line 77 false and the name is registered: the body starts the blocking
\* upstream call (line 98 -> 49, or line 101).
CallFetch(t, n) ==
  /\ pc[t] = "idle"
  /\ Blockers(t, n) = {}
  /\ ~IsFresh(cache, n, now)
  /\ n \in DOMAIN indicadores
  /\ pc' = [pc EXCEPT ![t] = "upstream"]
  /\ arg' = [arg EXCEPT ![t] = n]
  /\ req' = [req EXCEPT ![t] = Request(n)]
  /\ ret' = [ret EXCEPT ![t] = NoReturn]
  /\ io' = [io EXCEPT ![t] = 1]
  /\ UNCHANGED <<cache, now, ticks, end_date>>

\* The upstream call ends with answer resp; the body finishes and the wrapper
\* stores and returns the result, or handles the exception.
Finish(t, resp) ==
  LET r == baixar_dados(arg[t], resp)
  IN /\ cache' = wrapper_cache(cache, arg[t], r, now)
     /\ ret' = [ret EXCEPT ![t] = wrapper_return(r)]
     /\ pc' = [pc EXCEPT ![t] = "idle"]
     /\ req' = [req EXCEPT ![t] = NoReq]
     /\ UNCHANGED <<now, ticks, end_date, arg, io>>

YFReturn(t, resp) ==
  /\ pc[t] = "upstream"
  /\ req[t].fonte = "YF"
  /\ resp \in YFResponses
  /\ Finish(t, resp)

BCBReturn(t, resp) ==
  /\ pc[t] = "upstream"
  /\ req[t].fonte = "BCB"
  /\ resp \in BCBResponses
  /\ Finish(t, resp)

\* time.time() and datetime.now() advance.
Tick(d) ==
  /\ ticks < MaxTicks
  /\ now' = now + d
  /\ ticks' = ticks + 1
  /\ UNCHANGED <<cache, end_date, pc, arg, req, ret, io>>

Next ==
  \/ \E t \in Threads, n \in RequestedNames : CallHit(t, n)
  \/ \E t \in Threads : ReturnCached(t)
  \/ \E t \in Threads, n \in RequestedNames : CallKeyError(t, n)
  \/ \E t \in Threads, n \in RequestedNames : CallFetch(t, n)
  \/ \E t \in Threads, resp \in YFResponses : YFReturn(t, resp)
  \/ \E t \in Threads, resp \in BCBResponses : BCBReturn(t, resp)
  \/ \E d \in TickSteps : Tick(d)

Spec == Init /\ [][Next]_vars

-----------------------------------------------------------------------------
(* Properties                                                              *)

Registered(n) == n \in DOMAIN indicadores

\* Thread t has returned from a call.
Returned(t) == pc[t] = "idle" /\ ret[t].kind # "none"

\* Thread t has never called.
NeverCalled(t) == pc[t] = "idle" /\ ret[t].kind = "none" /\ arg[t] = ""

ErrorResponse == [kind |-> "error", rows |-> <<>>, close |-> FALSE]
EmptyResponse == [kind |-> "rows", rows |-> <<>>, close |-> FALSE]

\* The upstream calls in flight for name n.
InFlight(n) == {t \in Threads : pc[t] = "upstream" /\ arg[t] = n}

\* The TimeSeries invariants: no missing value, dates strictly increasing.
IsTimeSeries(s) ==
  /\ \A i \in 1..Len(s) : s[i].val # NaN
  /\ \A i \in 1..Len(s) : \A j \in 1..Len(s) : i < j => s[i].date < s[j].date

\* C1: at most one upstream fetch is in flight per indicator name at any time.
C1_OneFetchInFlight ==
  \A n \in RequestedNames : Cardinality(InFlight(n)) <= 1

\* C2: when the central-bank call raises, the wrapper still writes an entry
\* with an empty series and the current timestamp and returns the empty series.
C2_FailedFetchIsCached ==
  [][\A t \in Threads :
       BCBReturn(t, ErrorResponse) =>
         /\ ret'[t] = Return(EmptyDataFrame)
         /\ arg[t] \in DOMAIN cache'
         /\ cache'[arg[t]] = [data |-> EmptyDataFrame, timestamp |-> now]]_vars

\* C3: a call with a name that is not registered ends in a failure raised to
\* the caller, never in a normal (empty) result.
C3_UnknownIsRejected ==
  \A t \in Threads :
    (Returned(t) /\ ~Registered(arg[t])) => ret[t].kind = "raise"

\* C4: a call with a registered name returns a series, whatever the upstream
\* call did; it never ends in an exception raised to the caller.
C4_KnownNeverRaises ==
  \A t \in Threads :
    (Returned(t) /\ Registered(arg[t])) => ret[t].kind = "series"

\* A call for a central-bank series whose upstream call raised has returned
\* the empty series (no entry exists, so the body did not produce a result).
C4_Witness ==
  \E t \in Threads :
    /\ Returned(t) /\ arg[t] = "Taxa Selic" /\ io[t] = 1
    /\ "Taxa Selic" \notin DOMAIN cache
    /\ ret[t] = Return(EmptyDataFrame)

\* C5: a call that finds an entry is served from the cache, with no upstream
\* call, exactly when now - fetchedAt < 3600; otherwise it makes exactly one
\* upstream call.
C5_TTLBoundary ==
  [][\A t \in Threads :
       /\ (pc[t] = "idle" /\ pc'[t] # "idle" /\ arg'[t] \in DOMAIN cache) =>
            /\ (pc'[t] = "hit" /\ io'[t] = 0)
                  <=> (now - cache[arg'[t]].timestamp < CACHE_TIMEOUT)
            /\ (pc'[t] = "upstream" /\ io'[t] = 1)
                  <=> (now - cache[arg'[t]].timestamp >= CACHE_TIMEOUT)
       /\ (pc[t] # "idle" /\ pc'[t] = "idle") => io'[t] = io[t]]_vars

\* The only caller so far refetches an entry at exactly fetchedAt + 3600.
C5_Witness ==
  \E t \in Threads :
    /\ pc[t] = "upstream" /\ io[t] = 1
    /\ arg[t] \in DOMAIN cache
    /\ now - cache[arg[t]].timestamp = CACHE_TIMEOUT
    /\ \A u \in Threads \ {t} : NeverCalled(u)

\* C6: a call that found a fresh entry returns exactly the series of the entry
\* and makes no upstream call, leaving the cache as it is.
C6_HitReturnsEntry ==
  [][\A t \in Threads :
       (pc[t] = "hit" /\ pc'[t] = "idle") =>
         /\ ret'[t] = Return(cache[arg[t]].data)
         /\ io'[t] = 0
         /\ cache' = cache]_vars

\* A call was served a non-empty series from the cache with no upstream call.
C6_Witness ==
  \E t \in Threads :
    /\ Returned(t) /\ io[t] = 0
    /\ arg[t] \in DOMAIN cache
    /\ ret[t] = Return(cache[arg[t]].data)
    /\ ret[t].data # EmptyDataFrame

\* C7: an empty answer of the adapter is a completed fetch: the call returns
\* the empty series and leaves an entry with the empty series and the current
\* timestamp; a later call within the TTL is served that empty series from
\* the cache with no upstream call.
C7_EmptyResultIsCached ==
  [][\A t \in Threads :
       /\ (YFReturn(t, EmptyResponse) \/ BCBReturn(t, EmptyResponse)) =>
            /\ ret'[t] = Return(EmptyDataFrame)
            /\ arg[t] \in DOMAIN cache'
            /\ cache'[arg[t]] = [data |-> EmptyDataFrame, timestamp |-> now]
       /\ ( /\ pc[t] = "idle" /\ (pc'[t] # "idle" \/ ret'[t] # ret[t])
            /\ arg'[t] \in DOMAIN cache
            /\ cache[arg'[t]].data = EmptyDataFrame
            /\ now - cache[arg'[t]].timestamp < CACHE_TIMEOUT ) =>
            (pc'[t] = "hit" /\ io'[t] = 0)
       /\ ( /\ pc[t] = "hit" /\ pc'[t] = "idle"
            /\ cache[arg[t]].data = EmptyDataFrame ) =>
            (ret'[t] = Return(EmptyDataFrame) /\ io'[t] = 0)]_vars

\* A call for Ibovespa was served the cached empty series with no upstream call.
C7_Witness ==
  \E t \in Threads :
    /\ Returned(t) /\ arg[t] = "Ibovespa" /\ io[t] = 0
    /\ "Ibovespa" \in DOMAIN cache
    /\ cache["Ibovespa"].data = EmptyDataFrame
    /\ ret[t] = Return(EmptyDataFrame)

\* C8: every upstream call is made with the window from 1994-07-01 to the day
\* after the calendar date at the time of that call.
C8_EndDateIsTomorrow ==
  [][\A t \in Threads :
       (pc[t] = "idle" /\ pc'[t] = "upstream") =>
         /\ req'[t].start = start_date
         /\ req'[t].end = Tomorrow(now)]_vars

\* C9: every series returned or cached has no missing value and strictly
\* increasing dates without duplicates.
C9_SeriesIsNormalized ==
  /\ \A t \in Threads : ret[t].kind = "series" => IsTimeSeries(ret[t].data)
  /\ \A n \in DOMAIN cache : IsTimeSeries(cache[n].data)

\* C10: a call with a name that is not registered makes no upstream call and
\* leaves the cache unchanged.
C10_UnknownNoEffect ==
  /\ [](\A t \in Threads :
         (arg[t] # "" /\ ~Registered(arg[t])) =>
           (pc[t] = "idle" /\ io[t] = 0 /\ req[t] = NoReq))
  /\ [][\A t \in Threads :
          ( /\ ~Registered(arg'[t])
            /\ (pc'[t] # pc[t] \/ ret'[t] # ret[t] \/ arg'[t] # arg[t]) ) =>
            cache' = cache]_vars

\* A call with an unregistered name has returned while the cache holds an entry.
C10_Witness ==
  \E t \in Threads :
    /\ Returned(t) /\ arg[t] = "Bitcoin" /\ io[t] = 0
    /\ DOMAIN cache # {}


\* C11: concurrent calls for the same stale or absent name all return the
\* same series. A caller whose upstream call is still in flight while the
\* entry of its name is fresh overlaps a fetch that stored (and returned) that
\* entry, so it must return the series of that entry.
C11_ConcurrentCallersAgree ==
  [][\A t \in Threads :
       ( /\ pc[t] = "upstream" /\ pc'[t] = "idle"
         /\ arg[t] \in DOMAIN cache
         /\ now - cache[arg[t]].timestamp < CACHE_TIMEOUT ) =>
         ret'[t].data = cache[arg[t]].data]_vars


\* C12: callers for different names never block each other: while a fetch for
\* one name is in flight, a thread calling or working on another name can
\* take its next step (enter, return the cached series, finish its own fetch).
C12_NoCrossNameBlocking ==
  \A t \in Threads : \A u \in Threads \ {t} :
    pc[u] = "upstream" =>
      /\ pc[t] = "idle" =>
           \A n \in RequestedNames \ {arg[u]} :
             ENABLED (CallHit(t, n) \/ CallKeyError(t, n) \/ CallFetch(t, n))
      /\ (pc[t] = "hit" /\ arg[t] # arg[u]) => ENABLED ReturnCached(t)
      /\ (pc[t] = "upstream" /\ arg[t] # arg[u]) =>
           ENABLED (\E resp \in YFResponses \cup BCBResponses :
                      YFReturn(t, resp) \/ BCBReturn(t, resp))

\* A fetch for Ibovespa is in flight, and a call for Taxa Selic has made its
\* own upstream call, stored its entry and returned.
C12_Witness ==
  \E t \in Threads : \E u \in Threads \ {t} :
    /\ pc[u] = "upstream" /\ arg[u] = "Ibovespa"
    /\ "Ibovespa" \notin DOMAIN cache
    /\ Returned(t) /\ arg[t] = "Taxa Selic" /\ io[t] = 1
    /\ "Taxa Selic" \in DOMAIN cache


\* C13: every upstream call, to the market-data source and to the central
\* bank alike, is made with an upper bound on its duration, so that no call
\* stays in flight for ever.
C13_EveryCallHasTimeout ==
  \A t \in Threads : pc[t] = "upstream" => req[t].timeout > 0


\* The conceptual state of the entry of name n in cache c at time t.
Lifecycle(c, n, t) ==
  IF n \notin DOMAIN c THEN "NoEntry"
  ELSE IF t - c[n].timestamp < CACHE_TIMEOUT THEN "Fresh" ELSE "Stale"

\* The entry of every registered name only moves NoEntry -> Fresh,
\* Fresh -> Stale and Stale -> Fresh, and is never removed.
LifecycleTransitions ==
  [][\A n \in DOMAIN indicadores :
       LET a == Lifecycle(cache, n, now)
           b == Lifecycle(cache', n, now')
       IN \/ a = b
          \/ <<a, b>> \in {<<"NoEntry", "Fresh">>, <<"Fresh", "Stale">>,
                           <<"Stale", "Fresh">>}]_vars

\* C14: the entry of a registered name moves only NoEntry -> Fresh -> Stale ->
\* Fresh, is never removed, and exists once the first call for that name has
\* returned, whether its fetch succeeded or failed.
C14_Lifecycle ==
  /\ LifecycleTransitions
  /\ [](\A t \in Threads :
          (Returned(t) /\ Registered(arg[t])) => arg[t] \in DOMAIN cache)


\* C15: no write to an entry happens between a hit's freshness test and its
\* read of the data, so the hit returns the series of the entry it tested;
\* and every change of an entry is the write of one finished fetch, which
\* stores its series together with the time of the write.
C15_ReadsExcludeWrites ==
  [][/\ \A t \in Threads :
          pc[t] = "hit" =>
            (arg[t] \in DOMAIN cache' /\ cache'[arg[t]] = cache[arg[t]])
     /\ \A n \in DOMAIN cache' :
          (n \notin DOMAIN cache \/ cache'[n] # cache[n]) =>
            \E t \in Threads :
              /\ pc[t] = "upstream" /\ pc'[t] = "idle" /\ arg[t] = n
              /\ cache'[n] = [data |-> ret'[t].data, timestamp |-> now]]_vars


\* C16: every fetch for a registered name makes one upstream call, to the
\* adapter its registry entry names and with the code of that entry: the
\* market-data adapter with the ticker for Ibovespa, the central-bank adapter
\* with the series code for the others.
C16_DispatchFollowsRegistry ==
  \A t \in Threads :
    pc[t] = "upstream" =>
      /\ Registered(arg[t])
      /\ io[t] = 1
      /\ req[t].fonte = indicadores[arg[t]].fonte
      /\ req[t].codigo = indicadores[arg[t]].codigo
      /\ arg[t] = "Ibovespa" => (req[t].fonte = "YF" /\ req[t].codigo = "^BVSP")
      /\ arg[t] = "Taxa Selic" => (req[t].fonte = "BCB" /\ req[t].codigo = "4189")

\* One fetch is at the market-data adapter and another at the central bank.
C16_Witness ==
  \E t \in Threads : \E u \in Threads \ {t} :
    /\ pc[t] = "upstream" /\ arg[t] = "Ibovespa" /\ req[t].fonte = "YF"
    /\ pc[u] = "upstream" /\ arg[u] = "Taxa Selic" /\ req[u].fonte = "BCB"


\* C17: a call served from a fresh entry leaves the whole cache as it is; it
\* does not renew the timestamp of the entry, so the TTL runs from the last
\* finished fetch and not from the last read.
C17_HitIsReadOnly ==
  [][\A t \in Threads :
       ((pc[t] = "idle" /\ pc'[t] = "hit") \/ (pc[t] = "hit" /\ pc'[t] = "idle"))
         => cache' = cache]_vars

\* The only caller fetched an entry and was then served from it; the entry
\* has since become stale, exactly 3600 seconds after it was fetched.
C17_Witness ==
  \E t \in Threads :
    /\ Returned(t) /\ io[t] = 0
    /\ arg[t] \in DOMAIN cache
    /\ now - cache[arg[t]].timestamp = CACHE_TIMEOUT
    /\ \A u \in Threads \ {t} : NeverCalled(u)

\* C18: the keys of the cache are always names of the registry; no call with
\* an unregistered name creates an entry.
C18_CacheKeysRegistered ==
  DOMAIN cache \subseteq DOMAIN indicadores

\* A call with an unregistered name has returned and the cache holds exactly
\* the entries of the two registered names that were requested.
C18_Witness ==
  /\ DOMAIN cache = {"Ibovespa", "Taxa Selic"}
  /\ \E t \in Threads : Returned(t) /\ arg[t] = "Bitcoin"

====
